---------------------------- MODULE Spec2Model ----------------------------
(* GraalVM native-image SBOM cataloger (package java): the payload        *)
(* decoder, the ELF / Mach-O symbol locators, the PE export walk, the     *)
(* per-file probing loop and the multi-file Catalog loop; and the glob    *)
(* path filter of packages source and commands.                           *)
EXTENDS Integers, Sequences, FiniteSets, TLC

VARIABLES
    inp,      \* the input of the call: buffers and addresses, an image, the
              \* readers of a file, or the files the resolver yields
    out,      \* the result of the call once it has returned
    pc,       \* position of the call
    fi,       \* Catalog: index of the file the loop is at
    cpkgs,    \* Catalog: its pkgs, the packages gathered so far
    handles,  \* Catalog: per file, "unopened", "open" or "closed"
    ret       \* Catalog: the returned package list and error

vars == <<inp, out, pc, fi, cpkgs, handles, ret>>

-----------------------------------------------------------------------------
(* Fixed-width unsigned integers.  uint32 and uint64 keep their real      *)
(* width: a value is a little-endian sequence of 16-bit limbs (2 limbs    *)
(* for uint32, 4 for uint64) and arithmetic wraps at the top limb.        *)

Limb == 256 * 256

RECURSIVE FromNat(_, _)
FromNat(n, w) == IF w = 0 THEN <<>> ELSE <<n % Limb>> \o FromNat(n \div Limb, w - 1)

U32(n) == FromNat(n, 2)
U64(n) == FromNat(n, 4)

\* uint64(x) of a uint32 x: zero extension
U32to64(a) == a \o <<0, 0>>

RECURSIVE AddCarry(_, _, _)
AddCarry(a, b, c) ==
    IF a = <<>> THEN <<>>
    ELSE LET s == Head(a) + Head(b) + c
         IN  <<s % Limb>> \o AddCarry(Tail(a), Tail(b), s \div Limb)

\* a + b, wrapping at the width of a
UAdd(a, b) == AddCarry(a, b, 0)

RECURSIVE SubBorrow(_, _, _)
SubBorrow(a, b, c) ==
    IF a = <<>> THEN <<>>
    ELSE LET d == Head(a) - Head(b) - c
         IN  <<(d + Limb) % Limb>> \o SubBorrow(Tail(a), Tail(b), IF d < 0 THEN 1 ELSE 0)

\* a - b, wrapping at the width of a
USub(a, b) == SubBorrow(a, b, 0)

RECURSIVE MulCarry(_, _, _)
MulCarry(a, m, c) ==
    IF a = <<>> THEN <<>>
    ELSE LET s == Head(a) * m + c
         IN  <<s % Limb>> \o MulCarry(Tail(a), m, s \div Limb)

\* a * m for a small m, wrapping at the width of a
UMul(a, m) == MulCarry(a, m, 0)

RECURSIVE ULess(_, _)
ULess(a, b) ==
    IF a = <<>> THEN FALSE
    ELSE LET n == Len(a)
         IN  IF a[n] # b[n] THEN a[n] < b[n]
             ELSE ULess(SubSeq(a, 1, n - 1), SubSeq(b, 1, n - 1))

ULeq(a, b) == ~ULess(b, a)

\* the value of a as a natural number, for a below 2^31
ToNat(a) == a[1] + Limb * a[2]

\* binary.Read(p, binary.LittleEndian, &v): w limbs out of 2*w bytes
RECURSIVE binaryReadLE(_)
binaryReadLE(bytes) ==
    IF Len(bytes) < 2 THEN <<>>
    ELSE <<bytes[1] + 256 * bytes[2]>> \o binaryReadLE(SubSeq(bytes, 3, Len(bytes)))

\* the little-endian bytes of a value (how a binary stores it)
RECURSIVE PutLE(_)
PutLE(a) ==
    IF a = <<>> THEN <<>>
    ELSE <<Head(a) % 256, Head(a) \div 256>> \o PutLE(Tail(a))

-----------------------------------------------------------------------------
(* Slice expressions buf[lo:hi].  An access is logged with its two        *)
(* indices and the length of the buffer; Go panics on lo > hi or on       *)
(* hi > len(buf).                                                         *)

Access(what, lo, hi, n) == [what |-> what, lo |-> lo, hi |-> hi, n |-> n]

InRange(a) == ULeq(a.lo, a.hi) /\ ULeq(a.hi, FromNat(a.n, Len(a.hi)))

Slice(buf, lo, hi) == SubSeq(buf, ToNat(lo) + 1, ToNat(hi))

\* append(list, more...) over a sequence of lists
RECURSIVE Concat(_)
Concat(lists) == IF lists = <<>> THEN <<>> ELSE Head(lists) \o Concat(Tail(lists))

-----------------------------------------------------------------------------
(* Components, CPEs and packages.                                          *)

nativeImageCatalogerName == "graalvm-native-image-cataloger"

\* cpe.New(value): the well-formed CPE strings parse, all others fail
WellFormedCPEs == {"cpe:2.3:a:g:m:2.0:*:*:*:*:*:*:*", "cpe:2.3:a:h:m:2.0:*:*:*:*:*:*:*"}

cpeNew(value) ==
    IF value \in WellFormedCPEs
    THEN [ok |-> TRUE, cpe |-> <<"cpe", value>>]
    ELSE [ok |-> FALSE, cpe |-> <<>>]

\* one pass of the loop over component.Properties
CpeStep(cpes, property) ==
    LET r == cpeNew(property.Value)
    IN  IF ~r.ok THEN cpes ELSE cpes \o <<r.cpe>>

RECURSIVE CpeLoop(_, _)
CpeLoop(cpes, properties) ==
    IF properties = <<>> THEN cpes
    ELSE CpeLoop(CpeStep(cpes, Head(properties)), Tail(properties))

getPackage(component) ==
    [Name         |-> component.Name,
     Version      |-> component.Version,
     Language     |-> "java",
     Type         |-> "graalvm-native-image",
     MetadataType |-> "JavaMetadata",
     FoundBy      |-> nativeImageCatalogerName,
     GroupID      |-> component.Group,
     CPEs         |-> CpeLoop(<<>>, component.Properties)]

\* one pass of the loop over sbomContent.Components
ComponentStep_skipNoCpe(pkgs, component) ==
    IF getPackage(component).CPEs = <<>> THEN pkgs ELSE pkgs \o <<getPackage(component)>>

ComponentStep(pkgs, component) == pkgs \o <<getPackage(component)>>

RECURSIVE ComponentLoop(_, _)
ComponentLoop(pkgs, components) ==
    IF components = <<>> THEN pkgs
    ELSE ComponentLoop(ComponentStep(pkgs, Head(components)), Tail(components))

-----------------------------------------------------------------------------
(* gzip and JSON.  A compressed stream is a byte string; the streams the  *)
(* model knows inflate to a text, every other byte string is rejected by  *)
(* the header check or by the read of the body.                           *)

PropCpeM   == [Name |-> "syft:cpe23", Value |-> "cpe:2.3:a:g:m:2.0:*:*:*:*:*:*:*"]
PropJunk   == [Name |-> "syft:cpe23", Value |-> "not-a-cpe"]
PropCpeH   == [Name |-> "syft:cpe23", Value |-> "cpe:2.3:a:h:m:2.0:*:*:*:*:*:*:*"]

CompN == [Type |-> "library", Group |-> "g", Name |-> "n", Version |-> "1.0",
          Properties |-> <<>>]
CompM == [Type |-> "library", Group |-> "h", Name |-> "m", Version |-> "2.0",
          Properties |-> <<PropCpeM, PropJunk, PropCpeH>>]
CompJ == [Type |-> "library", Group |-> "", Name |-> "j", Version |-> "",
          Properties |-> <<PropJunk>>]

GzMagic == <<31, 139>>
GzN     == GzMagic \o <<1>>          \* components: [n]
GzMJ    == GzMagic \o <<2, 2>>       \* components: [m, j]
GzNone  == GzMagic \o <<3>>          \* components: []
GzText  == GzMagic \o <<4>>          \* inflates to text that is not JSON
GzTrunc == GzMagic \o <<5>>          \* valid header, corrupt body

gzipNewReader(b) == Len(b) >= 2 /\ SubSeq(b, 1, 2) = GzMagic

ioReadAll(b) ==
    CASE b = GzN    -> [ok |-> TRUE, text |-> "json-n"]
      [] b = GzMJ   -> [ok |-> TRUE, text |-> "json-mj"]
      [] b = GzNone -> [ok |-> TRUE, text |-> "json-none"]
      [] b = GzText -> [ok |-> TRUE, text |-> "not-json"]
      [] OTHER      -> [ok |-> FALSE, text |-> ""]

jsonUnmarshal(text) ==
    CASE text = "json-n"    -> [ok |-> TRUE, Components |-> <<CompN>>]
      [] text = "json-mj"   -> [ok |-> TRUE, Components |-> <<CompM, CompJ>>]
      [] text = "json-none" -> [ok |-> TRUE, Components |-> <<>>]
      [] OTHER              -> [ok |-> FALSE, Components |-> <<>>]

-----------------------------------------------------------------------------
(* decompressSbom.  A result carries the packages, the error (if any),    *)
(* whether the call panicked, and the log of the slice accesses made.     *)

ErrLengthOverflows == "the sbom_length symbol overflows the binary"
ErrSbomOverflows   == "the sbom symbol overflows the binary"
ErrGzipHeader      == "gzip: invalid header"
ErrGzipBody        == "unexpected EOF"
ErrJson            == "invalid character"

Ok(pkgs, reads)   == [pkgs |-> pkgs, err |-> "nil", panic |-> FALSE, reads |-> reads]
Fail(err, reads)  == [pkgs |-> <<>>, err |-> err, panic |-> FALSE, reads |-> reads]
Panic(reads)      == [pkgs |-> <<>>, err |-> "panic", panic |-> TRUE, reads |-> reads]

\* lengthEnd > uint64(buflen)
LengthCheck(lengthEnd, buflen) == ULess(buflen, lengthEnd)

\* sbomEnd > uint64(buflen)
SbomCheck(sbomEnd, buflen) == ULess(buflen, sbomEnd)

decodeSbom(sbomCompressed, reads) ==
    IF ~gzipNewReader(sbomCompressed) THEN Fail(ErrGzipHeader, reads)
    ELSE LET output == ioReadAll(sbomCompressed)
         IN  IF ~output.ok THEN Fail(ErrGzipBody, reads)
             ELSE LET sbomContent == jsonUnmarshal(output.text)
                  IN  IF ~sbomContent.ok THEN Fail(ErrJson, reads)
                      ELSE Ok(ComponentLoop(<<>>, sbomContent.Components), reads)

decompressSbom(databuf, sbomStart, lengthStart) ==
    LET lengthEnd == UAdd(lengthStart, U64(8))
        buflen    == U64(Len(databuf))
        rdLen     == Access("length", lengthStart, lengthEnd, Len(databuf))
    IN  IF LengthCheck(lengthEnd, buflen)
        THEN Fail(ErrLengthOverflows, <<>>)
        ELSE IF ~InRange(rdLen) THEN Panic(<<rdLen>>)
        ELSE LET storedLength == binaryReadLE(Slice(databuf, lengthStart, lengthEnd))
                 sbomEnd      == UAdd(sbomStart, storedLength)
                 rdSbom       == Access("sbom", sbomStart, sbomEnd, Len(databuf))
             IN  IF SbomCheck(sbomEnd, buflen)
                 THEN Fail(ErrSbomOverflows, <<rdLen>>)
                 ELSE IF ~InRange(rdSbom) THEN Panic(<<rdLen, rdSbom>>)
                 ELSE decodeSbom(Slice(databuf, sbomStart, sbomEnd), <<rdLen, rdSbom>>)

-----------------------------------------------------------------------------
(* ELF and Mach-O symbol locators.  An image is a record: kind is the     *)
(* container format of the reader ("none" when no probe recognizes it).   *)

nativeImageSbomSymbol        == "sbom"
nativeImageSbomLengthSymbol  == "sbom_length"
nativeImageSbomVersionSymbol == "__svm_version_info"
nativeImageMissingSymbolsError == "one or more symbols are missing from the native image executable"
nativeImageInvalidIndexError   == "parsing the executable file generated an invalid index"
ErrNoSymbols   == "no symbol section"
ErrSectionData == "cannot read section data"

\* the Value of the last symbol named name, 0 (the zero Symbol) when there is none
RECURSIVE SymbolScan(_, _, _)
SymbolScan(si, name, found) ==
    IF si = <<>> THEN found
    ELSE SymbolScan(Tail(si), name, IF Head(si).Name = name THEN Head(si).Value ELSE found)

\* sbom.Value == 0 || sbomLength.Value == 0 || svmVersion.Value == 0
SymbolsMissing(sbom, sbomLength, svmVersion) ==
    sbom = U64(0) \/ sbomLength = U64(0) \/ svmVersion = U64(0)

\* sbomLocation := sbom.Value - base; lengthLocation := sbomLength.Value - base
locateAndDecompress(data, base, sbomValue, lengthValue) ==
    decompressSbom(data, USub(sbomValue, base), USub(lengthValue, base))

elfFetchPkgs(bi) ==
    IF bi.symErr THEN Fail(ErrNoSymbols, <<>>)
    ELSE LET sbom       == SymbolScan(bi.syms, nativeImageSbomSymbol, U64(0))
             sbomLength == SymbolScan(bi.syms, nativeImageSbomLengthSymbol, U64(0))
             svmVersion == SymbolScan(bi.syms, nativeImageSbomVersionSymbol, U64(0))
         IN  IF SymbolsMissing(sbom, sbomLength, svmVersion)
             THEN Fail(nativeImageMissingSymbolsError, <<>>)
             ELSE IF ~bi.hasData THEN Ok(<<>>, <<>>)
             ELSE IF bi.dataErr THEN Fail(ErrSectionData, <<>>)
             ELSE locateAndDecompress(bi.data, bi.dataAddr, sbom, sbomLength)

\* bi.Symtab is a pointer: nil when the image has no symbol-table load command
machoFetchPkgs(bi) ==
    IF ~bi.hasSymtab THEN Panic(<<>>)
    ELSE LET sbom       == SymbolScan(bi.syms, "_sbom", U64(0))
             sbomLength == SymbolScan(bi.syms, "_sbom_length", U64(0))
             svmVersion == SymbolScan(bi.syms, "___svm_version_info", U64(0))
         IN  IF SymbolsMissing(sbom, sbomLength, svmVersion)
             THEN Fail(nativeImageMissingSymbolsError, <<>>)
             ELSE IF ~bi.hasData THEN Ok(<<>>, <<>>)
             ELSE IF bi.dataErr THEN Ok(<<>>, <<>>)
             ELSE locateAndDecompress(bi.data, bi.dataAddr, sbom, sbomLength)

-----------------------------------------------------------------------------
(* PE export walk.  ni.exports is the export directory read at            *)
(* ni.exportSymbols.VirtualAddress; the walk indexes it with uint32       *)
(* arithmetic.                                                            *)

\* unsafe.Sizeof(ni.header): characteristics, timeDateStamp, majorVersion,
\* minorVersion, name, base
SizeofHeader == 4 + 4 + 2 + 2 + 4 + 4

\* unsafe.Sizeof of a uint32 (headerAttribute, functionPointer, namePointer)
SizeofU32 == 4

\* name + "\x00" as bytes
sbomBytes           == <<115, 98, 111, 109, 0>>
sbomLengthBytes     == <<115, 98, 111, 109, 95, 108, 101, 110, 103, 116, 104, 0>>
svmVersionInfoBytes == <<95, 95, 115, 118, 109, 95, 118, 101, 114, 115, 105, 111, 110,
                         95, 105, 110, 102, 111, 0>>

HasPrefix(s, prefix) == Len(s) >= Len(prefix) /\ SubSeq(s, 1, Len(prefix)) = prefix

\* fetchExportAttribute: int arithmetic, j + 4 >= n is rejected
AttributeRejected(j, n) == j + 4 >= n

fetchExportAttribute(ni, i) ==
    LET n == Len(ni.exports)
        j == SizeofHeader + i * SizeofU32
        rd == Access("header", U32(j), U32(j + 4), n)
    IN  IF AttributeRejected(j, n)
        THEN [ok |-> FALSE, val |-> U32(0), reads |-> <<>>]
        ELSE [ok |-> TRUE, val |-> binaryReadLE(SubSeq(ni.exports, j + 1, j + 4)),
              reads |-> <<rd>>]

\* fetchExportFunctionPointer: uint32 arithmetic, j + sz >= n is rejected
PointerRejected(j, sz, n) == ULeq(n, UAdd(j, sz))

fetchExportFunctionPointer(ni, functionsBase, i) ==
    LET n  == U32(Len(ni.exports))
        sz == U32(SizeofU32)
        j  == UAdd(functionsBase, UMul(i, SizeofU32))
        rd == Access("functionPointer", j, UAdd(j, sz), Len(ni.exports))
    IN  IF PointerRejected(j, sz, n)
        THEN [ok |-> FALSE, panic |-> FALSE, val |-> U32(0), reads |-> <<>>]
        ELSE IF ~InRange(rd)
        THEN [ok |-> FALSE, panic |-> TRUE, val |-> U32(0), reads |-> <<rd>>]
        ELSE [ok |-> TRUE, panic |-> FALSE,
              val |-> binaryReadLE(Slice(ni.exports, j, UAdd(j, sz))), reads |-> <<rd>>]

\* fetchExportContent: the four attributes, the three marker indices zero (new)
fetchExportContent(ni) ==
    LET a0 == fetchExportAttribute(ni, 0)
        a1 == fetchExportAttribute(ni, 1)
        a2 == fetchExportAttribute(ni, 2)
        a3 == fetchExportAttribute(ni, 3)
    IN  [ok |-> a0.ok /\ a1.ok /\ a2.ok /\ a3.ok,
         reads |-> a0.reads \o a1.reads \o a2.reads \o a3.reads,
         content |-> [numberOfFunctions   |-> a0.val,
                      numberOfNames       |-> a1.val,
                      addressOfFunctions  |-> a2.val,
                      addressOfNames      |-> a3.val,
                      addressOfSbom       |-> U32(0),
                      addressOfSbomLength |-> U32(0),
                      addressOfSvmVersion |-> U32(0)]]

\* the switch of the walk: the first matching case records index i
MatchSymbol(content, name, i) ==
    CASE HasPrefix(name, sbomBytes)           -> [content EXCEPT !.addressOfSbom = i]
      [] HasPrefix(name, sbomLengthBytes)     -> [content EXCEPT !.addressOfSbomLength = i]
      [] HasPrefix(name, svmVersionInfoBytes) -> [content EXCEPT !.addressOfSvmVersion = i]
      [] OTHER                                -> content

\* the loop condition i < content.numberOfNames
WalkContinues_inclusive(i, numberOfNames) == ULeq(i, numberOfNames)

WalkContinues(i, numberOfNames) == ULess(i, numberOfNames)

\* the loop of fetchSbomSymbols from position i on.  stopped: a bounds check
\* returned at position at; panic: a slice expression was out of range
RECURSIVE WalkFrom(_, _, _, _)
WalkFrom(ni, content, i, reads) ==
    IF ~WalkContinues(i, content.numberOfNames)
    THEN [content |-> content, reads |-> reads, stopped |-> FALSE, panic |-> FALSE, at |-> i]
    ELSE
    LET n   == U32(Len(ni.exports))
        sz  == U32(SizeofU32)
        j   == UMul(i, SizeofU32)
        addressBase == USub(content.addressOfNames, ni.VirtualAddress)
        k   == UAdd(addressBase, j)
        rdK == Access("namePointer", k, UAdd(k, sz), Len(ni.exports))
    IN  IF ULeq(n, UAdd(k, sz))
        THEN [content |-> content, reads |-> reads, stopped |-> TRUE, panic |-> FALSE, at |-> i]
        ELSE IF ~InRange(rdK)
        THEN [content |-> content, reads |-> reads \o <<rdK>>, stopped |-> FALSE,
              panic |-> TRUE, at |-> i]
        ELSE
        LET symbolAddress == binaryReadLE(Slice(ni.exports, k, UAdd(k, sz)))
            symbolBase    == USub(symbolAddress, ni.VirtualAddress)
            rdN == Access("name", symbolBase, n, Len(ni.exports))
        IN  IF ULeq(n, symbolBase)
            THEN [content |-> content, reads |-> reads \o <<rdK>>, stopped |-> TRUE,
                  panic |-> FALSE, at |-> i]
            ELSE WalkFrom(ni,
                          MatchSymbol(content, Slice(ni.exports, symbolBase, n), i),
                          UAdd(i, U32(1)),
                          reads \o <<rdK, rdN>>)

fetchSbomSymbols(ni, content) == WalkFrom(ni, content, U32(0), <<>>)

\* addressOfSbom == 0 || addressOfSbomLength == 0 || addressOfSvmVersion == 0
MarkersMissing_onlySbom(content) == content.addressOfSbom = U32(0)

MarkersMissing(content) ==
    \/ content.addressOfSbom = U32(0)
    \/ content.addressOfSbomLength = U32(0)
    \/ content.addressOfSvmVersion = U32(0)

\* what fetchPkgs does once fetchSbomSymbols has returned
AfterWalk(ni, walk, reads0) ==
    LET content == walk.content
        reads1  == reads0 \o walk.reads
    IN
    IF MarkersMissing(content) THEN Fail(nativeImageMissingSymbolsError, reads1)
    ELSE
    LET functionsBase == USub(content.addressOfFunctions, ni.VirtualAddress)
        sbomPtr == fetchExportFunctionPointer(ni, functionsBase, content.addressOfSbom)
    IN
    IF sbomPtr.panic THEN Panic(reads1 \o sbomPtr.reads)
    ELSE IF ~sbomPtr.ok THEN Fail(nativeImageInvalidIndexError, reads1)
    ELSE
    LET lenPtr == fetchExportFunctionPointer(ni, functionsBase, content.addressOfSbomLength)
        reads2 == reads1 \o sbomPtr.reads \o lenPtr.reads
    IN
    IF lenPtr.panic THEN Panic(reads2)
    ELSE IF ~lenPtr.ok THEN Fail(nativeImageInvalidIndexError, reads2)
    ELSE IF ~ni.hasData THEN Ok(<<>>, reads2)
    ELSE IF ni.dataErr THEN Ok(<<>>, reads2)
    ELSE
    LET sbomLocation   == USub(sbomPtr.val, ni.dataAddr)
        lengthLocation == USub(lenPtr.val, ni.dataAddr)
        r == decompressSbom(ni.data, U32to64(sbomLocation), U32to64(lengthLocation))
    IN  [r EXCEPT !.reads = reads2 \o r.reads]

peFetchPkgs(ni) ==
    LET hdr == fetchExportContent(ni)
    IN  IF ~hdr.ok THEN Fail(nativeImageInvalidIndexError, hdr.reads)
        ELSE LET walk == fetchSbomSymbols(ni, hdr.content)
             IN  IF walk.panic THEN Panic(hdr.reads \o walk.reads)
                 ELSE AfterWalk(ni, walk, hdr.reads)

-----------------------------------------------------------------------------
(* The probing loop of fetchPkgs(reader, filename).                        *)

imageformats == <<"elf", "macho", "pe">>

\* newElf / newMachO / newPE: the probe of a format recognizes a reader of
\* that format; newPE also refuses an image whose export directory is empty
makeNativeImage(format, r) ==
    /\ r.kind = format
    /\ format = "pe" => Len(r.exports) > 0

\* ni.fetchPkgs()
niFetchPkgs(format, r) ==
    CASE format = "elf"   -> elfFetchPkgs(r)
      [] format = "macho" -> machoFetchPkgs(r)
      [] format = "pe"    -> peFetchPkgs(r)

\* pkgs = append(pkgs, newpkgs...)
AppendPkgs_overwrite(old, newpkgs) == newpkgs

AppendPkgs(old, newpkgs) == old \o newpkgs

\* the formats still to try on a reader after one pass of the inner loop
RestFormats_firstWins(formats, recognized) ==
    IF recognized THEN <<>> ELSE Tail(formats)

RestFormats(formats, recognized) == Tail(formats)

\* one pass of the inner loop; acc holds pkgs, the log of the probes made and
\* whether a panic has ended the call
ProbeStep_errEndsCall(acc, r, ri, format) ==
    IF ~makeNativeImage(format, r)
    THEN [acc EXCEPT !.log = @ \o <<[reader |-> ri, format |-> format,
                                     recognized |-> FALSE, res |-> Fail("probe", <<>>)]>>]
    ELSE LET res   == niFetchPkgs(format, r)
             entry == [reader |-> ri, format |-> format, recognized |-> TRUE, res |-> res]
         IN  IF res.panic \/ res.err # "nil"
             THEN [acc EXCEPT !.log = @ \o <<entry>>, !.panic = TRUE]
             ELSE [acc EXCEPT !.log = @ \o <<entry>>, !.pkgs = AppendPkgs(@, res.pkgs)]

ProbeStep(acc, r, ri, format) ==
    IF ~makeNativeImage(format, r)
    THEN [acc EXCEPT !.log = @ \o <<[reader |-> ri, format |-> format,
                                     recognized |-> FALSE, res |-> Fail("probe", <<>>)]>>]
    ELSE LET res   == niFetchPkgs(format, r)
             entry == [reader |-> ri, format |-> format, recognized |-> TRUE, res |-> res]
         IN  IF res.panic
             THEN [acc EXCEPT !.log = @ \o <<entry>>, !.panic = TRUE]
             ELSE IF res.err # "nil"
             THEN [acc EXCEPT !.log = @ \o <<entry>>]
             ELSE [acc EXCEPT !.log = @ \o <<entry>>, !.pkgs = AppendPkgs(@, res.pkgs)]

RECURSIVE FormatsLoop(_, _, _, _)
FormatsLoop(acc, r, ri, formats) ==
    IF formats = <<>> \/ acc.panic THEN acc
    ELSE FormatsLoop(ProbeStep(acc, r, ri, Head(formats)), r, ri,
                     RestFormats(formats, makeNativeImage(Head(formats), r)))

RECURSIVE ReadersLoop(_, _, _)
ReadersLoop(acc, readers, ri) ==
    IF ri > Len(readers) \/ acc.panic THEN acc
    ELSE ReadersLoop(FormatsLoop(acc, readers[ri], ri, imageformats), readers, ri + 1)

\* file.readersErr: unionreader.GetReaders fails
fetchPkgs(file) ==
    IF file.readersErr THEN [pkgs |-> <<>>, log |-> <<>>, panic |-> FALSE]
    ELSE ReadersLoop([pkgs |-> <<>>, log |-> <<>>, panic |-> FALSE], file.readers, 1)

-----------------------------------------------------------------------------
(* Inputs: data regions, images and files.                                 *)

MaxPad     == 1     \* bytes that follow the payload in a data region
MaxReaders == 2     \* readers of one file
MaxFiles   == 2     \* files the resolver yields

Zeros(n) == [i \in 1..n |-> 0]

MaxU64 == USub(U64(0), U64(1))
MaxU32 == USub(U32(0), U32(1))

\* a data region: the 8-byte length field at offset 0, the payload at offset 8
MkData(declared, payload, pad) == PutLE(declared) \o payload \o Zeros(pad)

Payloads == {GzN, GzMJ, GzNone, GzText, GzTrunc, <<1, 2, 3>>}

DeclaredFor(payload, pad) ==
    {U64(Len(payload)), U64(Len(payload) - 1), U64(Len(payload) + 1),
     U64(Len(payload) + pad + 1), MaxU64}

DataBufs ==
    UNION { UNION { { MkData(d, p, pad) : d \in DeclaredFor(p, pad) } : p \in Payloads }
            : pad \in 0..MaxPad }

ElfBase == U64(2 * 4096)

DecodeInputs ==
    [data        : DataBufs,
     base        : {ElfBase},
     sbomValue   : {UAdd(ElfBase, U64(8)), UAdd(ElfBase, U64(9)),
                    USub(ElfBase, U64(16)), UAdd(ElfBase, U64(4096))},
     lengthValue : {ElfBase, UAdd(ElfBase, U64(1)), USub(ElfBase, U64(8)),
                    USub(ElfBase, U64(1)), UAdd(ElfBase, U64(4096))}]

NoImage ==
    [kind |-> "none", symErr |-> FALSE, hasSymtab |-> FALSE, syms |-> <<>>,
     hasData |-> FALSE, dataErr |-> FALSE, dataAddr |-> U64(0), data |-> <<>>,
     VirtualAddress |-> U32(0), exports |-> <<>>]

Sym(name, value) == [Name |-> name, Value |-> value]

ElfSyms(sbom, sbomLength) ==
    <<Sym("main", UAdd(ElfBase, U64(64))), Sym("sbom", sbom),
      Sym("sbom_length", sbomLength), Sym("__svm_version_info", UAdd(ElfBase, U64(32)))>>

MachoSyms(sbom, sbomLength) ==
    <<Sym("_main", UAdd(ElfBase, U64(64))), Sym("_sbom", sbom),
      Sym("_sbom_length", sbomLength), Sym("___svm_version_info", UAdd(ElfBase, U64(32)))>>

ElfImage(syms, data) ==
    [NoImage EXCEPT !.kind = "elf", !.hasSymtab = TRUE, !.syms = syms, !.hasData = TRUE,
                    !.dataAddr = ElfBase, !.data = data]

MachoImage(syms, data) ==
    [NoImage EXCEPT !.kind = "macho", !.hasSymtab = TRUE, !.syms = syms, !.hasData = TRUE,
                    !.dataAddr = ElfBase, !.data = data]

StdElfSyms   == ElfSyms(UAdd(ElfBase, U64(8)), ElfBase)
StdMachoSyms == MachoSyms(UAdd(ElfBase, U64(8)), ElfBase)

DataN  == MkData(U64(Len(GzN)), GzN, 1)
DataMJ == MkData(U64(Len(GzMJ)), GzMJ, 0)

\* PE: the export directory at VirtualAddress PEVA, the .data section at PEData
PEVA   == U32(4096)
PEData == U32(3 * 4096)

OffNames   == SizeofHeader + 4 * SizeofU32
OffFuncs   == OffNames + 4 * SizeofU32
OffStrA    == OffFuncs + 4 * SizeofU32
OffStrSbom == OffStrA + 2
OffStrLen  == OffStrSbom + Len(sbomBytes)
OffStrSvm  == OffStrLen + Len(sbomLengthBytes)
OffEnd     == OffStrSvm + Len(svmVersionInfoBytes)

Rva(off) == UAdd(PEVA, U32(off))

RECURSIVE PutAll(_)
PutAll(values) == IF values = <<>> THEN <<>> ELSE PutLE(Head(values)) \o PutAll(Tail(values))

\* header, four attributes, four name pointers, four function pointers,
\* the strings "a", "sbom", "sbom_length", "__svm_version_info", padding
PEExports(numberOfNames, addressOfFunctions, addressOfNames, namePtrs, funcPtrs, pad) ==
    Zeros(SizeofHeader)
    \o PutAll(<<U32(4), numberOfNames, addressOfFunctions, addressOfNames>>)
    \o PutAll(namePtrs) \o PutAll(funcPtrs)
    \o <<97, 0>> \o sbomBytes \o sbomLengthBytes \o svmVersionInfoBytes
    \o Zeros(pad)

PEImage(exports, hasData, dataErr, data) ==
    [NoImage EXCEPT !.kind = "pe", !.VirtualAddress = PEVA, !.exports = exports,
                    !.hasData = hasData, !.dataErr = dataErr, !.dataAddr = PEData,
                    !.data = data]

\* function pointer i belongs to name i: sbom at 8, sbom_length at 0 of .data
StdFuncPtrs == <<U32(0), UAdd(PEData, U32(8)), PEData, UAdd(PEData, U32(32))>>

NameLayouts ==
    {<<Rva(OffStrA), Rva(OffStrSbom), Rva(OffStrLen), Rva(OffStrSvm)>>,
     <<Rva(OffStrSbom), Rva(OffStrLen), Rva(OffStrSvm), Rva(OffStrA)>>,
     <<Rva(OffStrA), Rva(OffStrSbom), Rva(OffStrLen), Rva(OffStrA)>>,
     <<Rva(OffStrA), Rva(OffStrSvm), Rva(OffStrLen), Rva(OffStrSbom)>>,
     <<Rva(OffStrA), Rva(OffStrSbom), Rva(OffEnd + MaxPad + 1), Rva(OffStrSvm)>>,
     <<Rva(OffStrA), Rva(OffStrSbom), Rva(OffStrLen), U32(0)>>}

PEExportsSet ==
    { PEExports(nn, af, an, np, StdFuncPtrs, pad) :
        nn \in {U32(0), U32(1), U32(3), U32(4), U32(5), MaxU32},
        af \in {Rva(OffFuncs), USub(PEVA, U32(8)), Rva(OffNames), Rva(OffEnd - 8)},
        an \in {Rva(OffNames), Rva(OffNames + 4), USub(PEVA, U32(4)), U32(0),
                Rva(OffEnd - 3)},
        np \in NameLayouts,
        pad \in 1..MaxPad }

PEInputs ==
    { PEImage(e, d[1], d[2], d[3]) :
        e \in PEExportsSet \cup {Zeros(SizeofHeader + 4 * SizeofU32)},
        d \in {<<TRUE, FALSE, DataN>>, <<FALSE, FALSE, <<>>>>, <<TRUE, TRUE, <<>>>>,
               <<TRUE, FALSE, MkData(U64(64), GzN, 1)>>} }

StdPEExports == PEExports(U32(4), Rva(OffFuncs), Rva(OffNames),
                          <<Rva(OffStrA), Rva(OffStrSbom), Rva(OffStrLen), Rva(OffStrSvm)>>,
                          StdFuncPtrs, 1)

\* the images a reader may hold
ElfN        == ElfImage(StdElfSyms, DataN)
MachoMJ     == MachoImage(StdMachoSyms, DataMJ)
PeN         == PEImage(StdPEExports, TRUE, FALSE, DataN)
ElfNoMarker == ElfImage(<<Sym("sbom", UAdd(ElfBase, U64(8))), Sym("sbom_length", ElfBase)>>, DataN)
ElfZeroMark == ElfImage(ElfSyms(UAdd(ElfBase, U64(8)), U64(0)), DataN)
ElfNoSyms   == [ElfImage(<<>>, DataN) EXCEPT !.symErr = TRUE]
ElfPastEnd  == ElfImage(ElfSyms(UAdd(ElfBase, U64(8)), UAdd(ElfBase, U64(4096))), DataN)
ElfBelow    == ElfImage(ElfSyms(UAdd(ElfBase, U64(8)), USub(ElfBase, U64(8))), DataN)
ElfCorrupt  == ElfImage(StdElfSyms, MkData(U64(Len(GzTrunc)), GzTrunc, 0))
ElfNoData   == [ElfImage(StdElfSyms, <<>>) EXCEPT !.hasData = FALSE]
MachoNoMark == MachoImage(<<Sym("_sbom", UAdd(ElfBase, U64(8)))>>, DataMJ)
MachoNoTab  == [MachoImage(<<>>, DataMJ) EXCEPT !.hasSymtab = FALSE]
PeNoNames   == PEImage(PEExports(U32(0), Rva(OffFuncs), Rva(OffNames),
                                 <<Rva(OffStrA), Rva(OffStrSbom), Rva(OffStrLen), Rva(OffStrSvm)>>,
                                 StdFuncPtrs, 1), TRUE, FALSE, DataN)
PeShort     == PEImage(Zeros(SizeofHeader + 4 * SizeofU32), TRUE, FALSE, DataN)
PeWrapNames == PEImage(PEExports(U32(1), Rva(OffFuncs), USub(PEVA, U32(4)),
                                 <<Rva(OffStrA), Rva(OffStrA), Rva(OffStrA), Rva(OffStrA)>>,
                                 StdFuncPtrs, 1), TRUE, FALSE, DataN)

\* all markers present, the data region absent or unreadable
ElfDataErr   == [ElfImage(StdElfSyms, <<>>) EXCEPT !.dataErr = TRUE]
MachoNoData  == [MachoImage(StdMachoSyms, <<>>) EXCEPT !.hasData = FALSE]
MachoDataErr == [MachoImage(StdMachoSyms, <<>>) EXCEPT !.dataErr = TRUE]
PeNoData     == PEImage(StdPEExports, FALSE, FALSE, <<>>)
PeDataErr    == PEImage(PEExports(U32(4), Rva(OffFuncs), Rva(OffNames),
                                  <<Rva(OffStrA), Rva(OffStrSvm), Rva(OffStrLen), Rva(OffStrSbom)>>,
                                  StdFuncPtrs, 1), TRUE, TRUE, <<>>)

ImageSet == {NoImage, ElfN, MachoMJ, PeN, ElfNoMarker, ElfZeroMark, ElfNoSyms, ElfPastEnd,
             ElfBelow, ElfCorrupt, ElfNoData, MachoNoMark, MachoNoTab, PeNoNames, PeShort,
             PeWrapNames, ElfDataErr, MachoNoData, MachoDataErr, PeNoData, PeDataErr}

RECURSIVE SeqsUpTo(_, _)
SeqsUpTo(S, n) ==
    IF n = 0 THEN {<<>>}
    ELSE LET shorter == SeqsUpTo(S, n - 1)
         IN  shorter \cup { Append(q, x) : q \in shorter, x \in S }

\* a file: whether FileContentsByLocation, GetUnionReader and GetReaders
\* succeed on it, and the readers it expands into
File(open, union, readersErr, readers) ==
    [open |-> open, union |-> union, readersErr |-> readersErr, readers |-> readers]

FetchInputs ==
    { File(TRUE, TRUE, FALSE, rs) : rs \in SeqsUpTo(ImageSet, MaxReaders) }
    \cup {File(TRUE, TRUE, TRUE, <<ElfN>>)}

FileSet ==
    {File(FALSE, TRUE, FALSE, <<ElfN>>), File(TRUE, FALSE, FALSE, <<ElfN>>),
     File(TRUE, TRUE, TRUE, <<ElfN>>), File(TRUE, TRUE, FALSE, <<ElfN>>),
     File(TRUE, TRUE, FALSE, <<MachoMJ, ElfN>>), File(TRUE, TRUE, FALSE, <<NoImage>>),
     File(TRUE, TRUE, FALSE, <<ElfNoMarker>>), File(TRUE, TRUE, FALSE, <<ElfCorrupt, PeN>>),
     File(TRUE, TRUE, FALSE, <<ElfBelow>>)}

CatalogInputs ==
    [mimeErr : BOOLEAN, files : SeqsUpTo(FileSet, MaxFiles)]

-----------------------------------------------------------------------------
(* Specifications.  A unit specification draws an input and applies the   *)
(* unit to it; Spec is the Catalog loop over the files of the resolver.    *)
(* A call that panics ends at "panicked" and never returns.                *)

NoResult == [pkgs |-> <<>>, err |-> "none", panic |-> FALSE, reads |-> <<>>]
NoReturn == [pkgs |-> <<>>, err |-> "none"]

CatalogIdle ==
    /\ fi = 0
    /\ cpkgs = <<>>
    /\ handles = <<>>
    /\ ret = NoReturn

InitUnit(inputs) ==
    /\ inp \in inputs
    /\ out = NoResult
    /\ pc = "call"
    /\ CatalogIdle

\* nativeImageElf.fetchPkgs from the address translation on
DecodeCall ==
    /\ pc = "call"
    /\ out' = locateAndDecompress(inp.data, inp.base, inp.sbomValue, inp.lengthValue)
    /\ pc' = IF out'.panic THEN "panicked" ELSE "return"
    /\ UNCHANGED <<inp, fi, cpkgs, handles, ret>>

SpecDecode == InitUnit(DecodeInputs) /\ [][DecodeCall]_vars

\* nativeImagePE.fetchPkgs; the result of the walk is kept beside the result
PECall ==
    /\ pc = "call"
    /\ LET hdr == fetchExportContent(inp)
       IN  out' = [res  |-> peFetchPkgs(inp),
                   hdr  |-> hdr,
                   walk |-> IF hdr.ok THEN fetchSbomSymbols(inp, hdr.content)
                            ELSE [content |-> hdr.content, reads |-> <<>>, stopped |-> FALSE,
                                  panic |-> FALSE, at |-> U32(0)]]
    /\ pc' = IF out'.res.panic THEN "panicked" ELSE "return"
    /\ UNCHANGED <<inp, fi, cpkgs, handles, ret>>

SpecPE == InitUnit(PEInputs) /\ [][PECall]_vars

\* fetchPkgs(reader, filename)
FetchCall ==
    /\ pc = "call"
    /\ out' = fetchPkgs(inp)
    /\ pc' = IF out'.panic THEN "panicked" ELSE "return"
    /\ UNCHANGED <<inp, fi, cpkgs, handles, ret>>

SpecFetch == InitUnit(FetchInputs) /\ [][FetchCall]_vars

\* NativeImageCataloger.Catalog
Init ==
    /\ inp \in CatalogInputs
    /\ out = NoResult
    /\ pc = "start"
    /\ fi = 0
    /\ cpkgs = <<>>
    /\ handles = [i \in 1..Len(inp.files) |-> "unopened"]
    /\ ret = NoReturn

\* resolver.FilesByMIMEType
FilesByMIMEType ==
    /\ pc = "start"
    /\ IF inp.mimeErr
       THEN /\ ret' = [pkgs |-> cpkgs, err |-> "failed to find binaries by mime types"]
            /\ pc' = "returned"
            /\ fi' = fi
       ELSE /\ pc' = "loop"
            /\ fi' = 1
            /\ ret' = ret
    /\ UNCHANGED <<inp, out, cpkgs, handles>>

\* resolver.FileContentsByLocation(location)
FileContentsByLocation ==
    /\ pc = "loop"
    /\ fi <= Len(inp.files)
    /\ IF inp.files[fi].open
       THEN /\ handles' = [handles EXCEPT ![fi] = "open"]
            /\ pc' = "opened"
            /\ fi' = fi
       ELSE /\ fi' = fi + 1
            /\ UNCHANGED <<handles, pc>>
    /\ UNCHANGED <<inp, out, cpkgs, ret>>

\* unionreader.GetUnionReader(readerCloser)
GetUnionReader_keepsPkgs ==
    /\ pc = "opened"
    /\ IF inp.files[fi].union
       THEN /\ pc' = "fetch"
            /\ ret' = ret
       ELSE /\ ret' = [pkgs |-> cpkgs, err |-> "union reader"]
            /\ pc' = "returned"
    /\ UNCHANGED <<inp, out, fi, cpkgs, handles>>

GetUnionReader ==
    /\ pc = "opened"
    /\ IF inp.files[fi].union
       THEN /\ pc' = "fetch"
            /\ ret' = ret
       ELSE /\ ret' = [pkgs |-> <<>>, err |-> "union reader"]
            /\ pc' = "returned"
    /\ UNCHANGED <<inp, out, fi, cpkgs, handles>>

\* newpkgs := fetchPkgs(...); pkgs = append(pkgs, newpkgs...); CloseAndLogError
FetchAndClose ==
    /\ pc = "fetch"
    /\ LET r == fetchPkgs(inp.files[fi])
       IN  IF r.panic
           THEN /\ pc' = "panicked"
                /\ UNCHANGED <<fi, cpkgs, handles>>
           ELSE /\ cpkgs' = cpkgs \o r.pkgs
                /\ handles' = [handles EXCEPT ![fi] = "closed"]
                /\ fi' = fi + 1
                /\ pc' = "loop"
    /\ UNCHANGED <<inp, out, ret>>

\* return pkgs, nil, nil
Return ==
    /\ pc = "loop"
    /\ fi > Len(inp.files)
    /\ ret' = [pkgs |-> cpkgs, err |-> "nil"]
    /\ pc' = "returned"
    /\ UNCHANGED <<inp, out, fi, cpkgs, handles>>

Next ==
    \/ FilesByMIMEType
    \/ FileContentsByLocation
    \/ GetUnionReader
    \/ FetchAndClose
    \/ Return

Spec == Init /\ [][Next]_vars

-----------------------------------------------------------------------------
(* The path filter: GetPathFilterFunc (package source) and getfilter       *)
(* (package commands) collect glob patterns and return the predicate      *)
(* "some collected pattern matches the path".                              *)

OsIdPaths ==
    <<"**/etc/os-release", "**/usr/lib/os-release", "**/etc/lsb-release",
      "**/etc/centos-release", "**/etc/redhat-release",
      "**/etc/system-release-cpe", "**/bin/busybox",
      "**/usr/share/doc/**/copyright">>

BinarySearchPaths == <<"**/**">>

\* the map literal, one entry per key, in the order of the source text
CatalogerGlobPatterns ==
    <<
      [k |-> "alpm-db-cataloger",
       v |-> <<"**/var/lib/pacman/local/**/desc">>],
      [k |-> "apk-db-cataloger",
       v |-> <<"**/lib/apk/db/installed">>],
      [k |-> "conan-cataloger",
       v |-> <<"**/conanfile.txt", "**/conan.lock">>],
      [k |-> "conan-info-cataloger",
       v |-> <<"**/conaninfo.txt">>],
      [k |-> "dart-pubspec-lock-cataloger",
       v |-> <<"**/pubspec.lock">>],
      [k |-> "dpkg-db-cataloger",
       v |-> <<"**/var/lib/dpkg/status", "**/var/lib/dpkg/status.d/*",
               "**/lib/opkg/info/*.control", "**/lib/opkg/status">>],
      [k |-> "dotnet-deps-cataloger",
       v |-> <<"**/*.deps.json">>],
      [k |-> "dotnet-portable-executable-cataloger",
       v |-> <<"**/*.dll", "**/*.exe">>],
      [k |-> "elixir-mix-lock-cataloger",
       v |-> <<"**/mix.lock">>],
      [k |-> "erlang-rebar-lock-cataloger",
       v |-> <<"**/rebar.lock">>],
      [k |-> "erlang-otp-application-cataloger",
       v |-> <<"**/*.app">>],
      [k |-> "portage-cataloger",
       v |-> <<"**/var/db/pkg/*/*/CONTENTS">>],
      [k |-> "github-actions-usage-cataloger",
       v |-> <<"**/.github/workflows/*.yaml", "**/.github/workflows/*.yml",
               "**/.github/actions/*/action.yml",
               "**/.github/actions/*/action.yaml">>],
      [k |-> "github-action-workflow-usage-cataloger",
       v |-> <<"**/.github/workflows/*.yaml", "**/.github/workflows/*.yml">>],
      [k |-> "go-module-file-cataloger",
       v |-> <<"**/go.mod">>],
      [k |-> "haskell-cataloger",
       v |-> <<"**/stack.yaml", "**/stack.yaml.lock",
               "**/cabal.project.freeze">>],
      [k |-> "java-archive-cataloger",
       v |-> <<"**/*.jar", "**/*.war", "**/*.ear", "**/*.par", "**/*.sar",
               "**/*.nar", "**/*.jpi", "**/*.hpi", "**/*.lpkg", "**/*.zip",
               "**/*.tar", "**/*.tar.gz", "**/*.tgz", "**/*.tar.bz",
               "**/*.tar.bz2", "**/*.tbz", "**/*.tbz2", "**/*.tar.br",
               "**/*.tbr", "**/*.tar.lz4", "**/*.tlz4", "**/*.tar.sz",
               "**/*.tsz", "**/*.tar.xz", "**/*.txz", "**/*.tar.zst",
               "**/*.tzst", "**/*.tar.zstd", "**/*.tzstd">>],
      [k |-> "java-pom-cataloger",
       v |-> <<"**/pom.xml">>],
      [k |-> "java-gradle-lockfile-cataloger",
       v |-> <<"**/gradle.lockfile*">>],
      [k |-> "javascript-package-cataloger",
       v |-> <<"**/package.json">>],
      [k |-> "javascript-lock-cataloger",
       v |-> <<"**/package-lock.json", "**/yarn.lock", "**/pnpm-lock.yaml">>],
      [k |-> "linux-kernel-cataloger",
       v |-> <<"**/kernel", "**/kernel-*", "**/vmlinux", "**/vmlinux-*",
               "**/vmlinuz", "**/vmlinuz-*", "**/lib/modules/**/*.ko">>],
      [k |-> "nix-store-cataloger",
       v |-> <<"**/nix/store/*">>],
      [k |-> "php-composer-installed-cataloger",
       v |-> <<"**/installed.json">>],
      [k |-> "php-composer-lock-cataloger",
       v |-> <<"**/composer.lock">>],
      [k |-> "php-pecl-serialized-cataloger",
       v |-> <<"**/php/.registry/.channel.*/*.reg">>],
      [k |-> "python-package-cataloger",
       v |-> <<"**/*requirements*.txt", "**/poetry.lock", "**/Pipfile.lock",
               "**/setup.py">>],
      [k |-> "python-installed-package-cataloger",
       v |-> <<"**/*.egg-info", "**/*dist-info/METADATA",
               "**/*egg-info/PKG-INFO", "**/*DIST-INFO/METADATA",
               "**/*EGG-INFO/PKG-INFO">>],
      [k |-> "r-package-cataloger",
       v |-> <<"**/DESCRIPTION">>],
      [k |-> "rpm-db-cataloger",
       v |-> <<"**/{var/lib,usr/share,usr/lib/sysimage}/rpm/{Packages,Packages.db,rpmdb.sqlite}",
               "**/var/lib/rpmmanifest/container-manifest-2">>],
      [k |-> "rpm-archive-cataloger",
       v |-> <<"**/*.rpm">>],
      [k |-> "ruby-gemfile-cataloger",
       v |-> <<"**/Gemfile.lock">>],
      [k |-> "ruby-installed-gemspec-cataloger",
       v |-> <<"**/specifications/**/*.gemspec">>],
      [k |-> "ruby-gemspec-cataloger",
       v |-> <<"**/*.gemspec">>],
      [k |-> "rust-cargo-lock-cataloger",
       v |-> <<"**/Cargo.lock">>],
      [k |-> "sbom-cataloger",
       v |-> <<"**/*.syft.json", "**/*.bom.*", "**/*.bom", "**/bom",
               "**/*.sbom.*", "**/*.sbom", "**/sbom", "**/*.cdx.*",
               "**/*.cdx", "**/*.spdx.*", "**/*.spdx">>],
      [k |-> "swift-package-manager-cataloger",
       v |-> <<"**/Package.resolved", "**/.package.resolved">>],
      [k |-> "cocoapods-cataloger",
       v |-> <<"**/Podfile.lock">>],
      [k |-> "wordpress-plugins-cataloger",
       v |-> <<"**/wp-content/plugins/*/*.php">>],
      [k |-> "binary-cataloger",
       v |-> BinarySearchPaths],
      [k |-> "go-module-binary-cataloger",
       v |-> BinarySearchPaths],
      [k |-> "cargo-auditable-binary-cataloger",
       v |-> BinarySearchPaths]
    >>

\* CatalogerGlobPatterns of package commands
commandsCatalogerGlobPatterns ==
    <<
      [k |-> "alpmdb-cataloger",
       v |-> <<"**/var/lib/pacman/local/**/desc">>],
      [k |-> "apkdb-cataloger",
       v |-> <<"**/lib/apk/db/installed">>],
      [k |-> "conan-cataloger",
       v |-> <<"**/conanfile.txt", "**/conan.lock">>],
      [k |-> "dartlang-lock-cataloger",
       v |-> <<"**/pubspec.lock">>],
      [k |-> "dpkgdb-cataloger",
       v |-> <<"**/var/lib/dpkg/{status,status.d/**}">>],
      [k |-> "dotnet-deps-cataloger",
       v |-> <<"**/*.deps.json">>],
      [k |-> "go-mod-file-cataloger",
       v |-> <<"**/go.mod">>],
      [k |-> "haskell-cataloger",
       v |-> <<"**/stack.yaml", "**/stack.yaml.lock",
               "**/cabal.project.freeze">>],
      [k |-> "java-cataloger",
       v |-> <<"**/*.jar", "**/*.war", "**/*.ear", "**/*.par", "**/*.sar",
               "**/*.jpi", "**/*.hpi", "**/*.lpkg", "**/*.zip", "**/*.tar",
               "**/*.tar.gz", "**/*.tgz", "**/*.tar.bz", "**/*.tar.bz2",
               "**/*.tbz", "**/*.tbz2", "**/*.tar.br", "**/*.tbr",
               "**/*.tar.lz4", "**/*.tlz4", "**/*.tar.sz", "**/*.tsz",
               "**/*.tar.xz", "**/*.txz", "**/*.tar.zst">>],
      [k |-> "java-pom-cataloger",
       v |-> <<"**/pom.xml">>],
      [k |-> "javascript-package-cataloger",
       v |-> <<"**/package.json">>],
      [k |-> "javascript-lock-cataloger",
       v |-> <<"**/package-lock.json", "**/yarn.lock", "**/pnpm-lock.yaml">>],
      [k |-> "nix-store-cataloger",
       v |-> <<"**/nix/store/*">>],
      [k |-> "php-composer-installed-cataloger",
       v |-> <<"**/installed.json">>],
      [k |-> "php-composer-lock-cataloger",
       v |-> <<"**/composer.lock">>],
      [k |-> "portage-cataloger",
       v |-> <<"**/var/db/pkg/*/*/CONTENTS">>],
      [k |-> "rpm-db-cataloger",
       v |-> <<"**/var/lib/rpm/{Packages,Packages.db,rpmdb.sqlite}",
               "**/var/lib/rpmmanifest/container-manifest-2">>],
      [k |-> "rpm-file-cataloger",
       v |-> <<"**/*.rpm">>],
      [k |-> "ruby-gemfile-cataloger",
       v |-> <<"**/Gemfile.lock">>],
      [k |-> "ruby-gemspec-cataloger",
       v |-> <<"**/specifications/**/*.gemspec">>],
      [k |-> "rust-cargo-lock-cataloger",
       v |-> <<"**/Cargo.lock">>],
      [k |-> "cocoapods-cataloger",
       v |-> <<"**/Podfile.lock">>],
      [k |-> "sbom-cataloger",
       v |-> <<"**/*.syft.json", "**/*.bom.*", "**/*.bom", "**/bom",
               "**/*.sbom.*", "**/*.sbom", "**/sbom", "**/*.cdx.*",
               "**/*.cdx", "**/*.spdx.*", "**/*.spdx">>],
      [k |-> "python-index-cataloger",
       v |-> <<"**/*requirements*.txt", "**/poetry.lock", "**/Pipfile.lock",
               "**/setup.py">>],
      [k |-> "python-package-cataloger",
       v |-> <<"**/*egg-info/PKG-INFO", "**/*.egg-info",
               "**/*dist-info/METADATA", "**/*.egg", "**/*.whl">>],
      [k |-> "binary-cataloger",
       v |-> BinarySearchPaths],
      [k |-> "go-module-binary-cataloger",
       v |-> BinarySearchPaths],
      [k |-> "cargo-auditable-binary-cataloger",
       v |-> BinarySearchPaths]
    >>
\* the cataloger names a caller may request
RequestedNames ==
    {"", "java", "binary", "rpm", "python-package-cataloger",
      "no-such-cataloger"}

\* strings.Contains(k, c): for each requested name c, the keys of the two
\* maps that contain c as a substring
ContainsTable ==
    "" :> {"alpm-db-cataloger", "apk-db-cataloger", "conan-cataloger",
          "conan-info-cataloger", "dart-pubspec-lock-cataloger",
          "dpkg-db-cataloger", "dotnet-deps-cataloger",
          "dotnet-portable-executable-cataloger",
          "elixir-mix-lock-cataloger", "erlang-rebar-lock-cataloger",
          "erlang-otp-application-cataloger", "portage-cataloger",
          "github-actions-usage-cataloger",
          "github-action-workflow-usage-cataloger",
          "go-module-file-cataloger", "haskell-cataloger",
          "java-archive-cataloger", "java-pom-cataloger",
          "java-gradle-lockfile-cataloger", "javascript-package-cataloger",
          "javascript-lock-cataloger", "linux-kernel-cataloger",
          "nix-store-cataloger", "php-composer-installed-cataloger",
          "php-composer-lock-cataloger", "php-pecl-serialized-cataloger",
          "python-package-cataloger", "python-installed-package-cataloger",
          "r-package-cataloger", "rpm-db-cataloger", "rpm-archive-cataloger",
          "ruby-gemfile-cataloger", "ruby-installed-gemspec-cataloger",
          "ruby-gemspec-cataloger", "rust-cargo-lock-cataloger",
          "sbom-cataloger", "swift-package-manager-cataloger",
          "cocoapods-cataloger", "wordpress-plugins-cataloger",
          "binary-cataloger", "go-module-binary-cataloger",
          "cargo-auditable-binary-cataloger", "alpmdb-cataloger",
          "apkdb-cataloger", "dartlang-lock-cataloger", "dpkgdb-cataloger",
          "go-mod-file-cataloger", "java-cataloger", "rpm-file-cataloger",
          "python-index-cataloger"}
    @@
    "java" :> {"java-archive-cataloger", "java-pom-cataloger",
          "java-gradle-lockfile-cataloger", "javascript-package-cataloger",
          "javascript-lock-cataloger", "java-cataloger"}
    @@
    "binary" :> {"binary-cataloger", "go-module-binary-cataloger",
          "cargo-auditable-binary-cataloger"}
    @@
    "rpm" :> {"rpm-db-cataloger", "rpm-archive-cataloger", "rpm-file-cataloger"}
    @@
    "python-package-cataloger" :> {"python-package-cataloger"}
    @@
    "no-such-cataloger" :> {}

stringsContains(k, c) == k \in ContainsTable[c]

\* the paths the predicate is asked about
Paths ==
    {"/etc/os-release", "/usr/share/doc/bash/copyright", "/app/lib/foo.jar",
      "/app/package.json", "/var/lib/dpkg/status.d/base",
      "/usr/lib/sysimage/rpm/rpmdb.sqlite", "/usr/bin/ls",
      "/srv/dist/pkg.whl"}

\* a pattern doublestar rejects as malformed (ErrBadPattern)
BadPattern == "["

\* doublestar.PathMatch(pattern, path): for each path, the patterns of the
\* two maps and of OsIdPaths that match it ("**/" spans zero or more
\* directories, "*" stays inside one path element, "{a,b}" is an alternative)
MatchTable ==
    "/etc/os-release" :>
        {"**/etc/os-release", "**/**"}
    @@
    "/usr/share/doc/bash/copyright" :>
        {"**/usr/share/doc/**/copyright", "**/**"}
    @@
    "/app/lib/foo.jar" :>
        {"**/**", "**/*.jar"}
    @@
    "/app/package.json" :>
        {"**/**", "**/package.json"}
    @@
    "/var/lib/dpkg/status.d/base" :>
        {"**/**", "**/var/lib/dpkg/status.d/*",
          "**/var/lib/dpkg/{status,status.d/**}"}
    @@
    "/usr/lib/sysimage/rpm/rpmdb.sqlite" :>
        {"**/**",
          "**/{var/lib,usr/share,usr/lib/sysimage}/rpm/{Packages,Packages.db,rpmdb.sqlite}"}
    @@
    "/usr/bin/ls" :>
        {"**/**"}
    @@
    "/srv/dist/pkg.whl" :>
        {"**/**", "**/*.whl"}

doublestarPathMatch(pattern, path) ==
    IF pattern = BadPattern THEN [match |-> FALSE, err |-> TRUE]
    ELSE [match |-> pattern \in MatchTable[path], err |-> FALSE]

\* AnyGlobMatches: the loop returns true at the first pattern whose match
\* succeeds; a pattern whose match fails with an error is skipped (continue)
\* and a pattern that does not match is passed over; false when the loop ends
AnyGlobMatches_errEnds(patterns, path) ==
    \E i \in DOMAIN patterns :
        /\ ~doublestarPathMatch(patterns[i], path).err
        /\ doublestarPathMatch(patterns[i], path).match
        /\ \A j \in 1..(i - 1) : ~doublestarPathMatch(patterns[j], path).err

AnyGlobMatches(patterns, path) ==
    \E i \in DOMAIN patterns :
        /\ ~doublestarPathMatch(patterns[i], path).err
        /\ doublestarPathMatch(patterns[i], path).match

\* the order in which one range statement visits the map: Go leaves it
\* unspecified, here the order of the literal or its reverse
RangeOrder(table, rev) ==
    IF rev THEN [i \in 1..Len(table) |-> table[Len(table) + 1 - i]] ELSE table

\* for k := range CatalogerGlobPatterns { if strings.Contains(k, c) {...} }
SelectLoop(patterns, entries, c) ==
    patterns \o Concat([i \in DOMAIN entries |->
                           IF stringsContains(entries[i].k, c) THEN entries[i].v ELSE <<>>])

\* for _, c := range catalogers
RECURSIVE CatalogersLoop(_, _, _, _)
CatalogersLoop(patterns, table, catalogers, revs) ==
    IF catalogers = <<>> THEN patterns
    ELSE CatalogersLoop(SelectLoop(patterns, RangeOrder(table, Head(revs)), Head(catalogers)),
                        table, Tail(catalogers), Tail(revs))

\* for _, c := range CatalogerGlobPatterns { patterns = append(patterns, c...) }
AllLoop(patterns, entries) ==
    patterns \o Concat([i \in DOMAIN entries |-> entries[i].v])

\* the patterns the returned predicate captures
CollectPatterns(table, catalogers, revs) ==
    IF Len(catalogers) > 0
    THEN CatalogersLoop(OsIdPaths, table, catalogers, revs)
    ELSE AllLoop(OsIdPaths, RangeOrder(table, Head(revs)))

GetPathFilterFunc(catalogers, revs) == CollectPatterns(CatalogerGlobPatterns, catalogers, revs)

getfilter(catalogers, revs) == CollectPatterns(commandsCatalogerGlobPatterns, catalogers, revs)

MaxCatalogers == 2     \* requested cataloger names
MaxPatterns   == 3     \* patterns handed to AnyGlobMatches

\* revs: one visiting order per range statement the call executes
FilterInputs ==
    UNION { { [unit |-> "filter", pkg |-> pkg, catalogers |-> cs, revs |-> revs, path |-> path] :
                pkg \in {"source", "commands"},
                revs \in [1..(IF cs = <<>> THEN 1 ELSE Len(cs)) -> BOOLEAN],
                path \in Paths }
            : cs \in SeqsUpTo(RequestedNames, MaxCatalogers) }

GlobInputs ==
    { [unit |-> "glob", patterns |-> ps, path |-> path] :
        ps \in SeqsUpTo({BadPattern, "**/*.jar", "**/etc/os-release"}, MaxPatterns),
        path \in {"/app/lib/foo.jar", "/usr/bin/ls"} }

\* filter := GetPathFilterFunc(catalogers) or getfilter(catalogers); filter(path)
FilterCall ==
    /\ pc = "call"
    /\ inp.unit = "filter"
    /\ LET patterns == IF inp.pkg = "source"
                       THEN GetPathFilterFunc(inp.catalogers, inp.revs)
                       ELSE getfilter(inp.catalogers, inp.revs)
       IN  out' = [accept |-> AnyGlobMatches(patterns, inp.path),
                   count  |-> Len(patterns),
                   panic  |-> FALSE]
    /\ pc' = "return"
    /\ UNCHANGED <<inp, fi, cpkgs, handles, ret>>

\* AnyGlobMatches(&patterns, path)
GlobCall ==
    /\ pc = "call"
    /\ inp.unit = "glob"
    /\ out' = [accept |-> AnyGlobMatches(inp.patterns, inp.path),
               count  |-> Len(inp.patterns),
               panic  |-> FALSE]
    /\ pc' = "return"
    /\ UNCHANGED <<inp, fi, cpkgs, handles, ret>>

FilterNext ==
    \/ FilterCall
    \/ GlobCall

SpecFilter == InitUnit(FilterInputs \cup GlobInputs) /\ [][FilterNext]_vars

-----------------------------------------------------------------------------
(* Properties.                                                             *)

\* the call has been made: it has returned or it has panicked
Called == pc \in {"return", "panicked"}

\* [start, start + size) lies in a buffer of n bytes, as mathematical integers
MathFits(start, size, n) ==
    /\ ULeq(start, U64(n))
    /\ ULeq(size, USub(U64(n), start))

DeclaredLength(data, lengthStart) == binaryReadLE(Slice(data, lengthStart, UAdd(lengthStart, U64(8))))

\* C1: decompressSbom never slices databuf out of range: the length field is
\* read only when lengthStart + 8 <= len(databuf), the payload is sliced only
\* when sbomStart + declaredLength <= len(databuf), as non-wrapping integers,
\* and every other call returns a bounds-violation error without a read.
C1_NoOutOfRangeSlice ==
    Called =>
        LET n           == Len(inp.data)
            sbomStart   == USub(inp.sbomValue, inp.base)
            lengthStart == USub(inp.lengthValue, inp.base)
        IN  /\ ~out.panic
            /\ \A i \in DOMAIN out.reads : InRange(out.reads[i])
            /\ ~MathFits(lengthStart, U64(8), n)
                  => out.err = ErrLengthOverflows /\ out.reads = <<>>
            /\ (MathFits(lengthStart, U64(8), n)
                /\ ~MathFits(sbomStart, DeclaredLength(inp.data, lengthStart), n))
                  => out.err = ErrSbomOverflows /\ Len(out.reads) = 1

ExportReads == {"header", "namePointer", "name", "functionPointer"}

\* C2: in the PE export walk every slice exports[a:b] that is executed has
\* a <= b <= len(exports), whatever 32-bit values the binary holds; an index
\* past the end yields a failure value instead.
C2_ExportSlicesInRange ==
    Called =>
        /\ \A i \in DOMAIN out.res.reads :
              out.res.reads[i].what \in ExportReads => InRange(out.res.reads[i])
        /\ ~out.walk.panic
        /\ out.res.panic => \E i \in DOMAIN out.res.reads :
                              out.res.reads[i].what \in {"length", "sbom"} /\ ~InRange(out.res.reads[i])

\* a marker of an ELF or Mach-O image is absent or has value zero
SymbolAbsent(r, name) ==
    \A k \in DOMAIN r.syms : r.syms[k].Name = name => r.syms[k].Value = U64(0)

\* the offset of address addr in the export directory, -1 when outside it
ExportOffset(r, addr) ==
    IF ULeq(r.VirtualAddress, addr) /\ ULess(USub(addr, r.VirtualAddress), U32(Len(r.exports)))
    THEN ToNat(USub(addr, r.VirtualAddress))
    ELSE -1

\* entry i of the name-pointer array of a PE image names marker
PENameIs(r, i, marker) ==
    LET an == binaryReadLE(SubSeq(r.exports, SizeofHeader + 13, SizeofHeader + 16))
        k  == ExportOffset(r, an)
    IN  /\ k >= 0
        /\ k + 4 * i + 4 <= Len(r.exports)
        /\ LET o == ExportOffset(r, binaryReadLE(SubSeq(r.exports, k + 4 * i + 1, k + 4 * i + 4)))
           IN  o >= 0 /\ HasPrefix(SubSeq(r.exports, o + 1, Len(r.exports)), marker)

PEMarkerAbsent(r, marker) ==
    \/ Len(r.exports) < SizeofHeader + 16
    \/ LET nn == binaryReadLE(SubSeq(r.exports, SizeofHeader + 5, SizeofHeader + 8))
       IN  \A i \in 0..(Len(r.exports) \div 4) : ULess(U32(i), nn) => ~PENameIs(r, i, marker)

MarkerAbsent(r) ==
    CASE r.kind = "elf" ->
            \/ r.symErr
            \/ \E m \in {"sbom", "sbom_length", "__svm_version_info"} : SymbolAbsent(r, m)
      [] r.kind = "macho" ->
            \/ ~r.hasSymtab
            \/ \E m \in {"_sbom", "_sbom_length", "___svm_version_info"} : SymbolAbsent(r, m)
      [] r.kind = "pe" ->
            \E m \in {sbomBytes, sbomLengthBytes, svmVersionInfoBytes} : PEMarkerAbsent(r, m)
      [] OTHER -> FALSE

\* C3: an image in which one of the three markers is absent or zero
\* contributes no package and surfaces no error: the probing loop consumes
\* the failure and goes on.
C3_MissingMarkerIsSilent ==
    Called =>
        \A k \in DOMAIN out.log :
            MarkerAbsent(inp.readers[out.log[k].reader]) =>
                /\ out.log[k].res.pkgs = <<>>
                /\ ~out.log[k].res.panic

\* the components an extraction decoded: those of the payload it sliced
DecodedComponents(r, res) ==
    LET rd == res.reads[Len(res.reads)]
    IN  jsonUnmarshal(ioReadAll(Slice(r.data, rd.lo, rd.hi)).text).Components

Decoded(res) ==
    /\ res.err = "nil"
    /\ res.reads # <<>>
    /\ res.reads[Len(res.reads)].what = "sbom"

ValidValues(component) ==
    SelectSeq(component.Properties, LAMBDA q : q.Value \in WellFormedCPEs)

PackageOf(p, component) ==
    /\ p.Name = component.Name
    /\ p.Version = component.Version
    /\ p.GroupID = component.Group
    /\ Len(p.CPEs) = Len(ValidValues(component))
    /\ \A j \in DOMAIN p.CPEs : p.CPEs[j] = <<"cpe", ValidValues(component)[j].Value>>

\* C4: when the three markers resolve and the payload decodes, extraction
\* returns one package per component, in order, with name, version and group
\* copied and the CPEs the parseable property values in property order; a
\* component without a parseable property still yields its package.
C4_OnePackagePerComponent ==
    Called =>
        \A k \in DOMAIN out.log :
            Decoded(out.log[k].res) =>
                LET comps == DecodedComponents(inp.readers[out.log[k].reader], out.log[k].res)
                    ps    == out.log[k].res.pkgs
                IN  /\ Len(ps) = Len(comps)
                    /\ \A i \in DOMAIN ps : PackageOf(ps[i], comps[i])

C4_Witness ==
    /\ pc = "return"
    /\ \E k \in DOMAIN out.log :
          /\ Decoded(out.log[k].res)
          /\ Len(out.log[k].res.pkgs) = 2
          /\ Len(out.log[k].res.pkgs[1].CPEs) = 2
          /\ out.log[k].res.pkgs[2].CPEs = <<>>

\* the packages one reader yields: those its image's extraction returns
PerReader(r) ==
    IF r.kind \in {"elf", "macho", "pe"} /\ makeNativeImage(r.kind, r)
    THEN LET res == niFetchPkgs(r.kind, r)
         IN  IF res.err = "nil" /\ ~res.panic THEN res.pkgs ELSE <<>>
    ELSE <<>>

PerReaderAll(readers) == Concat([i \in DOMAIN readers |-> PerReader(readers[i])])

\* C5: the result of fetchPkgs is the concatenation, in reader order, of the
\* package lists extracted from each reader of the file.
C5_ConcatenationOfReaders ==
    (pc = "return" /\ ~inp.readersErr) => out.pkgs = PerReaderAll(inp.readers)

C5_Witness ==
    /\ pc = "return"
    /\ Len(inp.readers) = 2
    /\ PerReader(inp.readers[1]) # <<>>
    /\ PerReader(inp.readers[2]) # <<>>
    /\ PerReader(inp.readers[1]) # PerReader(inp.readers[2])
    /\ Len(out.pkgs) = Len(PerReader(inp.readers[1])) + Len(PerReader(inp.readers[2]))

\* the length marker of an ELF or Mach-O image lies outside its data region
LengthOutside(r) ==
    /\ r.kind \in {"elf", "macho"}
    /\ ~r.symErr /\ r.hasSymtab /\ r.hasData /\ ~r.dataErr
    /\ ~MarkerAbsent(r)
    /\ LET name == IF r.kind = "elf" THEN "sbom_length" ELSE "_sbom_length"
           v    == SymbolScan(r.syms, name, U64(0))
       IN  \/ ULess(v, r.dataAddr)
           \/ ~MathFits(USub(v, r.dataAddr), U64(8), Len(r.data))

ProbesOf(log, ri) == SelectSeq(log, LAMBDA e : e.reader = ri)

\* C6: a soft failure on one reader (here: a length marker outside the data
\* region, a bounds violation) affects only that image: the packages of the
\* other readers are returned and every later reader is probed with all
\* formats.
C6_SoftFailureIsLocal ==
    Called =>
        \A ri \in DOMAIN inp.readers :
            (LengthOutside(inp.readers[ri])
             /\ \A e \in DOMAIN inp.readers : e # ri => inp.readers[e] \in {ElfN, MachoMJ, PeN, NoImage})
            => /\ ~out.panic
               /\ out.pkgs = PerReaderAll(inp.readers)
               /\ \A later \in DOMAIN inp.readers :
                     later > ri => Len(ProbesOf(out.log, later)) = Len(imageformats)

\* C7 as stated: the first probe that recognizes a reader wins, no later
\* probe is attempted on that reader.
C7_FirstProbeWins ==
    Called =>
        \A a, b \in DOMAIN out.log :
            (a < b /\ out.log[a].reader = out.log[b].reader) => ~out.log[a].recognized

\* C7 amended: on every reader the probes are attempted in the order ELF,
\* Mach-O, PE and all three are attempted whether or not an earlier one
\* recognized the reader; an extraction attempt follows exactly the probes
\* that recognize it, at most one per reader.  A call ended by a panic has
\* made a prefix of these probes.
C7_AllProbesInOrder ==
    (Called /\ ~inp.readersErr) =>
        /\ Len(out.log) <= 3 * Len(inp.readers)
        /\ pc = "return" => Len(out.log) = 3 * Len(inp.readers)
        /\ \A k \in DOMAIN out.log :
              /\ out.log[k].reader = ((k - 1) \div 3) + 1
              /\ out.log[k].format = imageformats[((k - 1) % 3) + 1]
              /\ out.log[k].recognized =>
                    inp.readers[out.log[k].reader].kind = out.log[k].format
        /\ \A ri \in DOMAIN inp.readers :
              Len(SelectSeq(ProbesOf(out.log, ri), LAMBDA e : e.recognized)) <= 1

C7_Witness ==
    /\ pc = "return"
    /\ Len(out.log) = 6
    /\ out.log[1].recognized
    /\ ~out.log[2].recognized
    /\ out.log[5].recognized

AnyIndexZero(content) ==
    \/ content.addressOfSbom = U32(0)
    \/ content.addressOfSbomLength = U32(0)
    \/ content.addressOfSvmVersion = U32(0)

HeaderReadable(r) == Len(r.exports) > SizeofHeader + 16

NoNames(r) == SubSeq(r.exports, SizeofHeader + 5, SizeofHeader + 8) = <<0, 0, 0, 0>>

\* C9: with a readable export directory header and numberOfNames = 0 the
\* walk reads neither the name-pointer array nor a name string, resolves no
\* marker, and the image contributes no package.
C9_NoNamesNoReads ==
    (Called /\ HeaderReadable(inp) /\ NoNames(inp)) =>
        /\ \A i \in DOMAIN out.res.reads : out.res.reads[i].what = "header"
        /\ out.walk.reads = <<>>
        /\ out.walk.content.addressOfSbom = U32(0)
        /\ out.walk.content.addressOfSbomLength = U32(0)
        /\ out.walk.content.addressOfSvmVersion = U32(0)
        /\ out.res.pkgs = <<>>
        /\ ~out.res.panic

C9_Witness ==
    /\ pc = "return"
    /\ HeaderReadable(inp)
    /\ NoNames(inp)
    /\ Len(out.res.reads) = 4
    /\ out.res.err = nativeImageMissingSymbolsError

\* C10: every byte source Catalog has opened is closed when Catalog returns.
C10_ClosedOnReturn ==
    pc = "returned" => \A i \in DOMAIN handles : handles[i] # "open"

\* the packages one file yields: those of its readers, none when
\* unionreader.GetReaders fails
FilePkgs(f) == IF f.readersErr THEN <<>> ELSE PerReaderAll(f.readers)

\* C11: Catalog never aborts because of the content of one binary: when the
\* resolver hands over every file, Catalog processes all of them, a
\* malformed file contributes no package, and Catalog returns the packages
\* of all files with a nil error.
C11_ScanNeverAborts ==
    (~inp.mimeErr /\ \A i \in DOMAIN inp.files : inp.files[i].open /\ inp.files[i].union) =>
        /\ pc # "panicked"
        /\ pc = "returned" =>
              ret = [pkgs |-> Concat([i \in DOMAIN inp.files |-> FilePkgs(inp.files[i])]),
                     err  |-> "nil"]

BoundsErrors == {ErrLengthOverflows, ErrSbomOverflows}
DecodeErrors == {ErrGzipHeader, ErrGzipBody, ErrJson}

DecodeFails(payload) ==
    \/ ~gzipNewReader(payload)
    \/ ~ioReadAll(payload).ok
    \/ ~jsonUnmarshal(ioReadAll(payload).text).ok

\* C12: the outcomes of decompressSbom are distinguishable by kind: a call in
\* which lengthStart + 8 <= len(databuf) or sbomStart + declaredLength <=
\* len(databuf) fails ends with one of the "overflows the binary" errors, a
\* call in which both hold ends with a decode error exactly when the gzip
\* or JSON step fails, and never with a bounds error.
C12_KindsAreDistinct ==
    Called =>
        LET n           == Len(inp.data)
            sbomStart   == USub(inp.sbomValue, inp.base)
            lengthStart == USub(inp.lengthValue, inp.base)
            fits        == /\ MathFits(lengthStart, U64(8), n)
                           /\ MathFits(sbomStart, DeclaredLength(inp.data, lengthStart), n)
        IN  /\ ~fits => out.err \in BoundsErrors
            /\ fits => out.err \notin BoundsErrors
            /\ fits => (out.err \in DecodeErrors <=>
                          DecodeFails(Slice(inp.data, sbomStart,
                                            UAdd(sbomStart, DeclaredLength(inp.data, lengthStart)))))

PEMarkers == {sbomBytes, sbomLengthBytes, svmVersionInfoBytes}

\* the positions i < numberOfNames of the name-pointer array that name marker
MarkerIndexes(r, marker) ==
    LET nn == binaryReadLE(SubSeq(r.exports, SizeofHeader + 5, SizeofHeader + 8))
    IN  {i \in 0..(Len(r.exports) \div 4) : ULess(U32(i), nn) /\ PENameIs(r, i, marker)}

\* C13: when the walk has visited the whole name-pointer array, the image is
\* declared to carry no manifest exactly when one of the three marker names
\* matches no entry; when all three are matched, at whatever index, the
\* extraction goes on to the function pointer of sbom at
\* exports[(addressOfFunctions - VirtualAddress) + 4*i].
C13_MatchedMarkersResolve ==
    (Called /\ out.hdr.ok /\ ~out.walk.panic /\ ~out.walk.stopped) =>
        LET absent == \E m \in PEMarkers : PEMarkerAbsent(inp, m)
            base   == USub(out.hdr.content.addressOfFunctions, inp.VirtualAddress)
        IN  /\ (out.res.err = nativeImageMissingSymbolsError) <=> absent
            /\ ~absent =>
                  \/ out.res.panic
                  \/ out.res.err = nativeImageInvalidIndexError
                  \/ \E i \in MarkerIndexes(inp, sbomBytes) :
                        \E k \in DOMAIN out.res.reads :
                            /\ out.res.reads[k].what = "functionPointer"
                            /\ out.res.reads[k].lo = UAdd(base, UMul(U32(i), SizeofU32))

\* j + 4 >= n as mathematical integers, j a uint32
PastLastByte(j, n) == ULeq(U64(n), UAdd(U32to64(j), U64(4)))

FunctionPointerReads(reads) == SelectSeq(reads, LAMBDA a : a.what = "functionPointer")

\* C14: a 4-byte read of the export directory at offset j is rejected
\* whenever j + 4 >= len(exports) and accepted whenever j + 4 < len(exports):
\* the header attributes, the name pointer at which the walk ends, and the
\* function pointer of sbom.
C14_RejectedIffPastLastByte ==
    Called =>
        LET n       == Len(inp.exports)
            content == out.walk.content
        IN  /\ out.hdr.ok <=> (SizeofHeader + 3 * SizeofU32 + 4 < n)
            /\ (out.hdr.ok /\ ULess(out.walk.at, content.numberOfNames)) =>
                  LET k == UAdd(USub(content.addressOfNames, inp.VirtualAddress),
                                UMul(out.walk.at, SizeofU32))
                  IN  PastLastByte(k, n) <=>
                         (out.walk.stopped /\ Len(out.walk.reads) = 2 * ToNat(out.walk.at))
            /\ (out.hdr.ok /\ ~out.walk.panic /\ ~AnyIndexZero(content)) =>
                  LET j == UAdd(USub(content.addressOfFunctions, inp.VirtualAddress),
                                UMul(content.addressOfSbom, SizeofU32))
                  IN  IF PastLastByte(j, n)
                      THEN /\ out.res.err = nativeImageInvalidIndexError
                           /\ FunctionPointerReads(out.res.reads) = <<>>
                      ELSE /\ FunctionPointerReads(out.res.reads) # <<>>
                           /\ FunctionPointerReads(out.res.reads)[1].lo = j

\* the markers of an image were located (for PE: resolved to addresses
\* through the function-pointer array) and its data region is absent or
\* unreadable
DataMissing(r, res) ==
    /\ r.kind \in {"elf", "macho", "pe"}
    /\ ~MarkerAbsent(r)
    /\ r.kind = "pe" => ~res.panic /\ Len(FunctionPointerReads(res.reads)) = 2
    /\ ~r.hasData \/ r.dataErr

OtherReaders(readers, ri) ==
    Concat([e \in DOMAIN readers |-> IF e = ri THEN <<>> ELSE PerReader(readers[e])])

Gathered(files, k) ==
    Concat([i \in 1..k |-> IF files[i].open THEN FilePkgs(files[i]) ELSE <<>>])

\* the files whose union reader cannot be obtained
UnionFailures(files) == {i \in DOMAIN files : files[i].open /\ ~files[i].union}

\* C16: a file that cannot be opened is skipped: the packages gathered
\* before it are kept, the files after it are processed and the final error
\* is nil.  A file whose union reader cannot be obtained ends Catalog at
\* once: it returns that error with a nil package list and no later file is
\* opened.
C16_ResolverFailures ==
    /\ pc = "loop" => cpkgs = Gathered(inp.files, fi - 1)
    /\ (pc = "returned" /\ ~inp.mimeErr) =>
          IF UnionFailures(inp.files) = {}
          THEN ret = [pkgs |-> Gathered(inp.files, Len(inp.files)), err |-> "nil"]
          ELSE LET u == CHOOSE i \in UnionFailures(inp.files) :
                            \A j \in UnionFailures(inp.files) : i <= j
               IN  /\ ret = [pkgs |-> <<>>, err |-> "union reader"]
                   /\ fi = u
                   /\ \A j \in DOMAIN handles : j > u => handles[j] = "unopened"

C16_Witness ==
    /\ pc = "returned"
    /\ Len(inp.files) = 2
    /\ ~inp.files[2].union
    /\ cpkgs # <<>>
    /\ ret = [pkgs |-> <<>>, err |-> "union reader"]

Range(s) == {s[i] : i \in DOMAIN s}

\* pattern matches path: the match succeeds without an error
Matches(pattern, path) ==
    /\ pattern # BadPattern
    /\ pattern \in MatchTable[path]

\* the entries of the map a list of requested names selects
SelectedEntries(table, catalogers) ==
    {e \in Range(table) :
        \/ catalogers = <<>>
        \/ \E c \in Range(catalogers) : e.k \in ContainsTable[c]}

SelectedPatterns(table, catalogers) ==
    Range(OsIdPaths) \cup UNION {Range(e.v) : e \in SelectedEntries(table, catalogers)}

\* C17: the predicate of GetPathFilterFunc / getfilter accepts a path exactly
\* when the path matches a pattern of OsIdPaths or of a selected cataloger
\* (every cataloger for an empty list, else those whose key contains a
\* requested name), whatever the order in which the map was visited; a path
\* matching OsIdPaths is accepted under every selection; AnyGlobMatches
\* skips a pattern whose match reports an error and goes on to the next.
C17_FilterAcceptsIffPatternMatches ==
    pc = "return" =>
        IF inp.unit = "filter"
        THEN LET table == IF inp.pkg = "source" THEN CatalogerGlobPatterns
                          ELSE commandsCatalogerGlobPatterns
             IN  /\ out.accept <=>
                       \E p \in SelectedPatterns(table, inp.catalogers) : Matches(p, inp.path)
                 /\ (\E p \in Range(OsIdPaths) : Matches(p, inp.path)) => out.accept
        ELSE out.accept <=> \E i \in DOMAIN inp.patterns : Matches(inp.patterns[i], inp.path)

C17_Witness ==
    /\ pc = "return"
    /\ inp.unit = "glob"
    /\ Len(inp.patterns) = 2
    /\ inp.patterns[1] = BadPattern
    /\ Matches(inp.patterns[2], inp.path)
    /\ out.accept

=============================================================================
